---------------------------- MODULE Spec2Model ----------------------------
(***************************************************************************)
(* Model of src/knn.c: the per-point neighbour chain (struct segment,      *)
(* segment_init, segment_put) and the all-pairs driver segmented_knn.      *)
(*                                                                         *)
(* Reading of the source.  The declarations of knn.c are read with their   *)
(* evident pointer types (`next' is a pointer to a segment, `neigh' is an  *)
(* array of segments, neigh[i] is passed by address).  Everything else is  *)
(* modelled as written:                                                    *)
(*   - no statement of knn.c ever assigns `next', so a chain is its head   *)
(*     segment only;                                                       *)
(*   - the branch `else if (cur->dist > dist)' is empty;                   *)
(*   - lines 55-56 call segment_put without its fourth argument, so the    *)
(*     loop bound seen by segment_put is an indeterminate unsigned value;  *)
(*   - segmented_knn ends without a return statement, so the value its     *)
(*     caller receives is indeterminate;                                   *)
(*   - dist_func is not defined; points have dimension 1 and the metric is *)
(*     the absolute difference of their coordinates.                       *)
(***************************************************************************)
EXTENDS Integers, Sequences, FiniteSets, TLC

\* ------------------------------------------------------------------ bounds
MaxLen  == 3    \* number of points len is drawn from 0..MaxLen
MaxNei  == 2    \* neighbour bound max_nei (K) is drawn from 0..MaxNei
MaxVal  == 1    \* coordinates (and distances) are drawn from 0..MaxVal
MaxArg  == 2    \* the unsupplied 4th argument of segment_put: 0..MaxArg
MaxId   == 2    \* candidate ids offered to a stand-alone list: 1..MaxId
MaxCap  == 2    \* capacity of a stand-alone list: 0..MaxCap
MaxDim  == 2    \* length of a vector of the caller's dataset: 1..MaxDim

VARIABLES
    len,        \* segmented_knn parameter: number of points N
    max_nei,    \* segmented_knn parameter: neighbour bound K
    vec,        \* segmented_knn parameter: the points, vec[p] with dim = 1
    neigh,      \* neigh[p]: the chain of segments of point p (head first)
    pc,         \* position in segmented_knn
    i, j,       \* loop counters of segmented_knn
    dist,       \* local `dist' of the inner loop body
    result,     \* what the caller of segmented_knn receives
    nDist,      \* number of dist_func evaluations so far
    nPut,       \* number of segment_put calls so far
    lst,        \* stand-alone lists: lst[1], lst[2] (chains of segments)
    cap,        \* max_nei passed to every segment_put on lst
    offered,    \* offered[l]: the candidates put to lst[l] so far
    wk,         \* parallel scan: wk[w] = [pc, j, dist] of the worker of outer index w
    dims,       \* dims[p]: the length of vector p in the caller's dataset
    hist        \* history of a build: evaluated pairs, offers made, slots written

vars == <<len, max_nei, vec, neigh, pc, i, j, dist, result, nDist, nPut,
          lst, cap, offered, wk, dims, hist>>

buildVars == <<len, max_nei, vec, neigh, pc, i, j, dist, result, nDist, nPut, dims, hist>>
listVars  == <<lst, cap, offered>>

\* --------------------------------------------------------- struct segment
\* A chain is the sequence of segments reached from the head through `next';
\* the last element is the one whose next is NULL.
Segment(index, d) == [index |-> index, dist |-> d]

\* A variant of segment_init that sets dist to 0 instead of -1.
segment_init_zero == << Segment(0, 0) >>

\* segment_init: index 0, dist -1, next NULL (a chain of one empty segment).
segment_init == << Segment(0, -1) >>

\* The for loop of segment_put: n iterations remain, cur is the position of
\* the current segment in the chain.
RECURSIVE PutLoop(_, _, _, _, _, _)
PutLoop(chain, cur, cindex, cdist, d, n) ==
    IF n = 0 THEN chain
    ELSE IF chain[cur].dist < 0
         THEN [chain EXCEPT ![cur] = Segment(cindex, cdist)]       \* break
         ELSE \* `else if (cur->dist > dist) { }' does nothing
              LET nxt == IF cur = Len(chain) THEN cur ELSE cur + 1
              IN  PutLoop(chain, nxt, cindex, cdist, d, n - 1)

\* A variant of segment_put that grows the chain: on a filled segment whose
\* next is NULL it links a fresh segment and moves on to it (arrival order).
RECURSIVE PutLoopAppend(_, _, _, _, _)
PutLoopAppend(chain, cur, cindex, cdist, n) ==
    IF n = 0 THEN chain
    ELSE IF chain[cur].dist < 0
         THEN [chain EXCEPT ![cur] = Segment(cindex, cdist)]
         ELSE LET grown == IF cur = Len(chain)
                           THEN Append(chain, Segment(0, -1)) ELSE chain
              IN  PutLoopAppend(grown, cur + 1, cindex, cdist, n - 1)

segment_put_append(this, index, d, maxnei) ==
    PutLoopAppend(this, 1, index, d, maxnei)

\* A variant of segment_put whose branch `else if (cur->dist > dist)' empties
\* the worse segment, to be refilled by the next iteration.
RECURSIVE PutLoopEvict(_, _, _, _, _, _)
PutLoopEvict(chain, cur, cindex, cdist, d, n) ==
    IF n = 0 THEN chain
    ELSE IF chain[cur].dist < 0
         THEN [chain EXCEPT ![cur] = Segment(cindex, cdist)]
         ELSE LET ch  == IF chain[cur].dist > d
                         THEN [chain EXCEPT ![cur] = Segment(0, -1)] ELSE chain
                  nxt == IF cur = Len(chain) THEN cur ELSE cur + 1
              IN  PutLoopEvict(ch, nxt, cindex, cdist, d, n - 1)

segment_put_evict(this, index, d, maxnei) ==
    PutLoopEvict(this, 1, index, d, d, maxnei)

\* A variant of segment_put with the comparison inverted and the branch
\* filled in: a segment holding a smaller distance is overwritten.
RECURSIVE PutLoopReplace(_, _, _, _, _, _)
PutLoopReplace(chain, cur, cindex, cdist, d, n) ==
    IF n = 0 THEN chain
    ELSE IF chain[cur].dist < 0 \/ chain[cur].dist < d
         THEN [chain EXCEPT ![cur] = Segment(cindex, cdist)]
         ELSE LET nxt == IF cur = Len(chain) THEN cur ELSE cur + 1
              IN  PutLoopReplace(chain, nxt, cindex, cdist, d, n - 1)

segment_put_replace(this, index, d, maxnei) ==
    PutLoopReplace(this, 1, index, d, d, maxnei)

\* A variant of segment_put whose emptiness test is `cur->dist <= 0'.
RECURSIVE PutLoopLeZero(_, _, _, _, _, _)
PutLoopLeZero(chain, cur, cindex, cdist, d, n) ==
    IF n = 0 THEN chain
    ELSE IF chain[cur].dist <= 0
         THEN [chain EXCEPT ![cur] = Segment(cindex, cdist)]
         ELSE LET nxt == IF cur = Len(chain) THEN cur ELSE cur + 1
              IN  PutLoopLeZero(chain, nxt, cindex, cdist, d, n - 1)

segment_put_lezero(this, index, d, maxnei) ==
    PutLoopLeZero(this, 1, index, d, d, maxnei)

segment_put(this, index, d, maxnei) ==
    PutLoop(this, 1, index, d, d, maxnei)

\* The number of iterations the for loop of segment_put executes (the
\* iteration that ends in `break' included).
RECURSIVE PutIters(_, _, _)
PutIters(chain, cur, n) ==
    IF n = 0 THEN 0
    ELSE IF chain[cur].dist < 0 THEN 1
    ELSE 1 + PutIters(chain, IF cur = Len(chain) THEN cur ELSE cur + 1, n - 1)

\* The entries of a list: the filled segments of its chain, in chain order.
RECURSIVE Entries(_)
Entries(chain) ==
    IF chain = << >> THEN << >>
    ELSE LET h == Head(chain)
         IN  (IF h.dist < 0 THEN << >> ELSE << [id |-> h.index, dist |-> h.dist] >>)
             \o Entries(Tail(chain))

\* ------------------------------------------------------------- the metric
Points == 0 .. (len - 1)

\* dist_func is not defined in knn.c; it is a symmetric, non-negative metric
\* as the specification requires: the absolute difference of the scenario
\* of its section 8, on points of dimension 1 (vec[i*dim] is vec[i]).
dist_func(a, b) == IF vec[a] < vec[b] THEN vec[b] - vec[a] ELSE vec[a] - vec[b]

\* ---------------------------------------------------------- segmented_knn
NoResult      == [kind |-> "none", map |-> << >>]
Indeterminate == [kind |-> "indeterminate", map |-> << >>]
Mapping(ng)   == [kind |-> "mapping", map |-> [p \in DOMAIN ng |-> Entries(ng[p])]]

\* The history of a build that has not evaluated or offered anything yet.
NoHist == [evals |-> << >>, offers |-> << >>, written |-> {}]

\* The history after segment_put(neigh[l], id, d): the offer is recorded, and
\* the list is recorded as written when the call changed its chain.
Offered(h, l, id, d, changed) ==
    [h EXCEPT !.offers = Append(@, [list |-> l, id |-> id, dist |-> d]),
              !.written = IF changed THEN @ \cup {l} ELSE @]

IdleBuild ==
    /\ len = 0 /\ max_nei = 0 /\ vec = << >> /\ neigh = << >>
    /\ pc = "idle" /\ i = 0 /\ j = 0 /\ dist = 0
    /\ result = NoResult /\ nDist = 0 /\ nPut = 0
    /\ dims = << >> /\ hist = NoHist
IdleList == /\ lst = << << >>, << >> >>
            /\ cap = 0
            /\ offered = << {}, {} >>
IdleWorkers == wk = << >>

Init ==
    /\ len \in 0 .. MaxLen
    /\ max_nei \in 0 .. MaxNei
    /\ vec \in [0 .. (len - 1) -> 0 .. MaxVal]
    /\ neigh = [p \in 0 .. (len - 1) |-> << >>]      \* malloc, not yet initialised
    /\ pc = "init"
    /\ i = 0 /\ j = 0 /\ dist = 0
    /\ result = NoResult
    /\ nDist = 0 /\ nPut = 0
    /\ dims = [p \in 0 .. (len - 1) |-> 1]
    /\ hist = NoHist
    /\ IdleList /\ IdleWorkers

\* line 50-51: for (i=0;i<len;i++) segment_init(neigh[i]);
InitStep ==
    /\ pc = "init" /\ i < len
    /\ neigh' = [neigh EXCEPT ![i] = segment_init]
    /\ i' = i + 1
    /\ UNCHANGED <<len, max_nei, vec, pc, j, dist, result, nDist, nPut>>
    /\ UNCHANGED <<listVars, wk, dims, hist>>

InitDone ==
    /\ pc = "init" /\ ~(i < len)
    /\ i' = 0 /\ pc' = "outer"
    /\ UNCHANGED <<len, max_nei, vec, neigh, j, dist, result, nDist, nPut>>
    /\ UNCHANGED <<listVars, wk, dims, hist>>

\* A variant of line 53 whose inner loop starts at j = 0.
OuterEnter_FromZero ==
    /\ pc = "outer" /\ i < len
    /\ j' = 0 /\ pc' = "inner"
    /\ UNCHANGED <<len, max_nei, vec, neigh, i, dist, result, nDist, nPut>>
    /\ UNCHANGED <<listVars, wk, dims, hist>>

\* A variant of line 53 whose inner loop starts at j = i.
OuterEnter_FromI ==
    /\ pc = "outer" /\ i < len
    /\ j' = i /\ pc' = "inner"
    /\ UNCHANGED <<len, max_nei, vec, neigh, i, dist, result, nDist, nPut>>
    /\ UNCHANGED <<listVars, wk, dims, hist>>

\* line 52-53: for (i=0;i<len;i++){ for (j=i+1; ...
OuterEnter ==
    /\ pc = "outer" /\ i < len
    /\ j' = i + 1 /\ pc' = "inner"
    /\ UNCHANGED <<len, max_nei, vec, neigh, i, dist, result, nDist, nPut>>
    /\ UNCHANGED <<listVars, wk, dims, hist>>

OuterExit ==
    /\ pc = "outer" /\ ~(i < len)
    /\ pc' = "ret"
    /\ UNCHANGED <<len, max_nei, vec, neigh, i, j, dist, result, nDist, nPut>>
    /\ UNCHANGED <<listVars, wk, dims, hist>>

\* A variant of line 54 that passes vec[j*dim] twice.
InnerDist_SamePoint ==
    /\ pc = "inner" /\ j < len
    /\ dist' = dist_func(j, j)
    /\ nDist' = nDist + 1
    /\ hist' = [hist EXCEPT !.evals = Append(@, <<i, j>>)]
    /\ pc' = "put_i"
    /\ UNCHANGED <<len, max_nei, vec, neigh, i, j, result, nPut>>
    /\ UNCHANGED <<lst, cap, offered, wk, dims>>

\* line 54: ftype dist = dist_func(vec[i*dim], vec[j*dim], dim);
InnerDist ==
    /\ pc = "inner" /\ j < len
    /\ dist' = dist_func(i, j)
    /\ nDist' = nDist + 1
    /\ hist' = [hist EXCEPT !.evals = Append(@, <<i, j>>)]
    /\ pc' = "put_i"
    /\ UNCHANGED <<len, max_nei, vec, neigh, i, j, result, nPut>>
    /\ UNCHANGED <<listVars, wk, dims>>

InnerExit ==
    /\ pc = "inner" /\ ~(j < len)
    /\ i' = i + 1 /\ pc' = "outer"
    /\ UNCHANGED <<len, max_nei, vec, neigh, j, dist, result, nDist, nPut>>
    /\ UNCHANGED <<listVars, wk, dims, hist>>

\* A variant of line 55 that passes the owner's index instead of j.
PutI_OwnIndex ==
    /\ pc = "put_i"
    /\ \E m \in 0 .. MaxArg :
           neigh' = [neigh EXCEPT ![i] = segment_put(@, i, dist, m)]
    /\ hist' = Offered(hist, i, i, dist, neigh'[i] # neigh[i])
    /\ nPut' = nPut + 1
    /\ pc' = "put_j"
    /\ UNCHANGED <<len, max_nei, vec, i, j, dist, result, nDist>>
    /\ UNCHANGED <<lst, cap, offered, wk, dims>>

\* line 55: segment_put(neigh[i], j, dist);   (no 4th argument: any bound m)
PutI ==
    /\ pc = "put_i"
    /\ \E m \in 0 .. MaxArg :
           neigh' = [neigh EXCEPT ![i] = segment_put(@, j, dist, m)]
    /\ hist' = Offered(hist, i, j, dist, neigh'[i] # neigh[i])
    /\ nPut' = nPut + 1
    /\ pc' = "put_j"
    /\ UNCHANGED <<len, max_nei, vec, i, j, dist, result, nDist>>
    /\ UNCHANGED <<listVars, wk, dims>>

\* line 56: segment_put(neigh[j], i, dist);   then j++
PutJ ==
    /\ pc = "put_j"
    /\ \E m \in 0 .. MaxArg :
           neigh' = [neigh EXCEPT ![j] = segment_put(@, i, dist, m)]
    /\ hist' = Offered(hist, j, i, dist, neigh'[j] # neigh[j])
    /\ nPut' = nPut + 1
    /\ j' = j + 1
    /\ pc' = "inner"
    /\ UNCHANGED <<len, max_nei, vec, i, dist, result, nDist>>
    /\ UNCHANGED <<listVars, wk, dims>>

\* line 59: the closing brace is reached without a return statement; the
\* caller receives either the array that was built or an arbitrary value.
Return ==
    /\ pc = "ret"
    /\ result' \in {Mapping(neigh), Indeterminate}
    /\ pc' = "done"
    /\ UNCHANGED <<len, max_nei, vec, neigh, i, j, dist, nDist, nPut>>
    /\ UNCHANGED <<listVars, wk, dims, hist>>

\* The builder state of the specification that a position of segmented_knn
\* stands for: 0 Uninitialized (the init loop runs), 1 Initialized (init loop
\* left, scan not entered), 2 Computing (inside the scan), 3 Completed.
BuilderRank ==
    CASE pc = "init" -> 0
      [] pc = "outer" /\ i = 0 -> 1
      [] pc \in {"ret", "done"} -> 3
      [] OTHER -> 2

Next ==
    \/ InitStep \/ InitDone
    \/ OuterEnter \/ OuterExit
    \/ InnerDist \/ InnerExit
    \/ PutI \/ PutJ
    \/ Return

Spec == Init /\ [][Next]_vars

\* segmented_knn is a sequential function: while a statement remains, the
\* next one is executed.
FairSpec == Spec /\ WF_vars(Next)

\* ------------------------------------------------- a dataset of any shape
\* segmented_knn takes one `dim' for the whole array, so the lengths of the
\* caller's vectors never reach it.  Here the caller's dataset may hold
\* vectors of different lengths; the function runs as above, and vec[p] is
\* the scalar it reads at vec[p*dim].
InitAnyShape ==
    /\ len \in 0 .. MaxLen
    /\ max_nei \in 0 .. MaxNei
    /\ vec \in [0 .. (len - 1) -> 0 .. MaxVal]
    /\ dims \in [0 .. (len - 1) -> 1 .. MaxDim]
    /\ neigh = [p \in 0 .. (len - 1) |-> << >>]
    /\ pc = "init"
    /\ i = 0 /\ j = 0 /\ dist = 0
    /\ result = NoResult
    /\ nDist = 0 /\ nPut = 0
    /\ hist = NoHist
    /\ IdleList /\ IdleWorkers

SpecAnyShape == InitAnyShape /\ [][Next]_vars

\* ------------------------------------------- segment_put on a single list
\* Two lists of the same capacity, both owned by point 0, receive arbitrary
\* sequences of segment_put calls that respect the preconditions of the
\* insertion (id is not the owner, id was not offered to that list before).
InitList ==
    /\ IdleBuild /\ IdleWorkers
    /\ cap \in 0 .. MaxCap
    /\ lst = << segment_init, segment_init >>
    /\ offered = << {}, {} >>

ListPut(l, id, d) ==
    /\ \A c \in offered[l] : c.id # id
    /\ lst' = [lst EXCEPT ![l] = segment_put(@, id, d, cap)]
    /\ offered' = [offered EXCEPT ![l] = @ \cup {[id |-> id, dist |-> d]}]
    /\ UNCHANGED <<buildVars, cap, wk>>

NextList ==
    \E l \in {1, 2}, id \in 1 .. MaxId, d \in 0 .. MaxVal : ListPut(l, id, d)

SpecList == InitList /\ [][NextList]_vars

\* -------------------------------------------------- the parallel scan
\* The parallelisation described by the specification: the lists are
\* initialised, one worker per outer index w runs the inner loop of
\* segmented_knn for i = w, the bound K is passed on as min(K, N-1), and
\* every segment_put is one atomic step (one mutex per list).  A coarser
\* partition of the outer index only removes interleavings.
EffectiveK == IF len = 0 THEN 0 ELSE (IF max_nei < len - 1 THEN max_nei ELSE len - 1)

InitPar ==
    /\ len \in 0 .. MaxLen
    /\ max_nei \in 0 .. MaxNei
    /\ vec \in [0 .. (len - 1) -> 0 .. MaxVal]
    /\ neigh = [p \in 0 .. (len - 1) |-> segment_init]
    /\ pc = "par"
    /\ i = 0 /\ j = 0 /\ dist = 0
    /\ result = NoResult
    /\ nDist = 0 /\ nPut = 0
    /\ wk = [w \in 0 .. (len - 1) |-> [pc |-> "inner", j |-> w + 1, dist |-> 0]]
    /\ dims = [p \in 0 .. (len - 1) |-> 1]
    /\ hist = NoHist
    /\ IdleList

WorkerDist(w) ==
    /\ wk[w].pc = "inner" /\ wk[w].j < len
    /\ wk' = [wk EXCEPT ![w].dist = dist_func(w, wk[w].j), ![w].pc = "put_i"]
    /\ nDist' = nDist + 1
    /\ UNCHANGED <<len, max_nei, vec, neigh, pc, i, j, dist, result, nPut, listVars, dims, hist>>

WorkerExit(w) ==
    /\ wk[w].pc = "inner" /\ ~(wk[w].j < len)
    /\ wk' = [wk EXCEPT ![w].pc = "done"]
    /\ UNCHANGED <<buildVars, listVars>>

WorkerPutI(w) ==
    /\ wk[w].pc = "put_i"
    /\ neigh' = [neigh EXCEPT ![w] = segment_put(@, wk[w].j, wk[w].dist, EffectiveK)]
    /\ wk' = [wk EXCEPT ![w].pc = "put_j"]
    /\ nPut' = nPut + 1
    /\ UNCHANGED <<len, max_nei, vec, pc, i, j, dist, result, nDist, listVars, dims, hist>>

WorkerPutJ(w) ==
    /\ wk[w].pc = "put_j"
    /\ neigh' = [neigh EXCEPT ![wk[w].j] = segment_put(@, w, wk[w].dist, EffectiveK)]
    /\ wk' = [wk EXCEPT ![w].pc = "inner", ![w].j = @ + 1]
    /\ nPut' = nPut + 1
    /\ UNCHANGED <<len, max_nei, vec, pc, i, j, dist, result, nDist, listVars, dims, hist>>

NextPar ==
    \/ \E w \in DOMAIN wk : WorkerDist(w)
    \/ \E w \in DOMAIN wk : WorkerExit(w)
    \/ \E w \in DOMAIN wk : WorkerPutI(w)
    \/ \E w \in DOMAIN wk : WorkerPutJ(w)

SpecPar == InitPar /\ [][NextPar]_vars

\* The same scan run by one thread: pairs (a, b) in the order of the two
\* nested loops of segmented_knn.
RECURSIVE SeqScan(_, _, _)
SeqScan(ng, a, b) ==
    IF ~(a < len) THEN ng
    ELSE IF ~(b < len) THEN SeqScan(ng, a + 1, a + 2)
    ELSE LET d   == dist_func(a, b)
             ng1 == [ng  EXCEPT ![a] = segment_put(@, b, d, EffectiveK)]
             ng2 == [ng1 EXCEPT ![b] = segment_put(@, a, d, EffectiveK)]
         IN  SeqScan(ng2, a, b + 1)

SeqResult == SeqScan([p \in 0 .. (len - 1) |-> segment_init], 0, 1)

\* ------------------------------------------------ reference definitions
Min(a, b) == IF a < b THEN a ELSE b
Range(s) == { s[x] : x \in DOMAIN s }

\* The lexicographic order (distance, id) on entries.
Less(a, b) == a.dist < b.dist \/ (a.dist = b.dist /\ a.id < b.id)

\* Reference full sort of a finite set of entries with distinct ids.
RECURSIVE SortSet(_)
SortSet(S) ==
    IF S = {} THEN << >>
    ELSE LET m == CHOOSE x \in S : \A y \in S \ {x} : Less(x, y)
         IN  << m >> \o SortSet(S \ {m})

Take(s, n) == SubSeq(s, 1, Min(n, Len(s)))

\* All N-1 candidates of point p and the reference answer for p.
Candidates(p) == { [id |-> q, dist |-> dist_func(p, q)] : q \in Points \ {p} }
RefTopK(p) == Take(SortSet(Candidates(p)), Min(max_nei, len - 1))

IsSorted(e) ==
    \A a, b \in 1 .. Len(e) :
        a < b => (e[a].dist < e[b].dist \/ (e[a].dist = e[b].dist /\ e[a].id <= e[b].id))

\* ----------------------------------------------------------------- claims

\* C1: when the build has completed, the list of every point p is exactly
\* the first min(K, N-1) entries of the reference full sort of p's N-1
\* candidates under (distance, id).
C1_BruteForceCorrect ==
    pc = "done" => \A p \in Points : Entries(neigh[p]) = RefTopK(p)

\* C2: when the build has completed, every list holds exactly min(K, N-1)
\* entries.
C2_FinalSize ==
    pc = "done" => \A p \in Points : Len(Entries(neigh[p])) = Min(max_nei, len - 1)

C4_NoDupNoSelf ==
    \A p \in DOMAIN neigh :
        LET e == Entries(neigh[p])
        IN  /\ \A a, b \in 1 .. Len(e) : a # b => e[a].id # e[b].id
            /\ \A a \in 1 .. Len(e) : e[a].id # p

\* C4 witness: a completed build over three points in which every list holds
\* an entry.
C4_Witness ==
    /\ pc = "done" /\ len = 3
    /\ \A p \in Points : Len(Entries(neigh[p])) = 1

\* C9: in a build with K = 0 every insertion is rejected, so every list is
\* empty in every state and in the result.
C9_ZeroK ==
    max_nei = 0 => \A p \in DOMAIN neigh : Entries(neigh[p]) = << >>

\* C10: a build with N = 0 returns the empty mapping and a build with N = 1
\* returns a mapping whose single sequence is empty; no distance is evaluated
\* and no insertion is made.
C10_TinyDatasets ==
    (pc = "done" /\ len <= 1) =>
        /\ result = [kind |-> "mapping", map |-> [p \in Points |-> << >>]]
        /\ nDist = 0 /\ nPut = 0

\* The candidate of the segment_put that a step makes on lst[l].
PutOn(l) == offered'[l] # offered[l]
PutCand(l) == CHOOSE c \in offered'[l] : c \notin offered[l]

\* C5: two lists of the same capacity that were offered the same set of
\* candidates hold identical entries in identical order, whatever the order
\* of the offers.
C5_OrderIndependent ==
    offered[1] = offered[2] => Entries(lst[1]) = Entries(lst[2])

\* C7: a segment_put(id, d) on a full list (size = capacity > 0) replaces
\* the maximum entry by the candidate, at its sorted position, iff the
\* candidate is smaller than the maximum under (distance, id); otherwise the
\* list is unchanged.
C7_FullListEviction ==
    [][ \A l \in {1, 2} :
          (PutOn(l) /\ cap > 0 /\ Len(Entries(lst[l])) = cap) =>
              LET e  == Entries(lst[l])
                  mx == e[cap]
                  c  == PutCand(l)
              IN  Entries(lst'[l]) =
                      IF Less(c, mx) THEN SortSet((Range(e) \ {mx}) \cup {c})
                                     ELSE e ]_vars

\* C8: a segment_put(id, d) on a list with size < capacity stores the
\* candidate at its sorted position, keeps every stored entry and grows the
\* size by one.
C8_RoomAccepts ==
    [][ \A l \in {1, 2} :
          (PutOn(l) /\ Len(Entries(lst[l])) < cap) =>
              LET e == Entries(lst[l])
                  c == PutCand(l)
              IN  /\ Entries(lst'[l]) = SortSet(Range(e) \cup {c})
                  /\ Len(Entries(lst'[l])) = Len(e) + 1 ]_vars

\* C6: when every worker of the parallel scan has finished, the lists are
\* the ones the sequential scan produces, whatever the interleaving was.
C6_ParallelEqualsSequential ==
    (pc = "par" /\ \A w \in DOMAIN wk : wk[w].pc = "done") =>
        \A p \in Points : Entries(neigh[p]) = Entries(SeqResult[p])

\* The caller's dataset holds two vectors of different length.
Ragged == \E a, b \in DOMAIN dims : dims[a] # dims[b]

\* C11: on a dataset with two vectors of different length the build fails
\* with InvalidDimension before any list is initialised, any distance is
\* evaluated or any insertion is made, and it returns no mapping.
C11_InvalidDimension ==
    Ragged =>
        /\ \A p \in DOMAIN neigh : neigh[p] = << >>
        /\ nDist = 0 /\ nPut = 0
        /\ result.kind # "mapping"
        /\ pc = "done" => result.kind = "InvalidDimension"

\* The entries of all lists of the build.
EntriesOf == [p \in DOMAIN neigh |-> Entries(neigh[p])]

\* C12: the builder only moves forward through Uninitialized, Initialized,
\* Computing, Completed; every list is initialised and empty when it enters
\* Initialized; the entries of a list change only while it is Computing; no
\* list changes once it is Completed.
C12_Lifecycle ==
    [][ /\ BuilderRank' >= BuilderRank
        /\ (BuilderRank = 0 /\ BuilderRank' = 1) =>
               \A p \in Points : neigh'[p] # << >> /\ Entries(neigh'[p]) = << >>
        /\ (EntriesOf' # EntriesOf) => (BuilderRank = 2 /\ BuilderRank' = 2)
        /\ (BuilderRank = 3) => (neigh' = neigh) ]_vars

\* C12 witness: a build over three points that went through the scan, filled
\* a list and has completed.
C12_Witness ==
    /\ pc = "done" /\ len = 3 /\ nPut = 6
    /\ \E p \in Points : Entries(neigh[p]) # << >>

Count(seq, x) == Cardinality({ k \in DOMAIN seq : seq[k] = x })
OffersTo(p) == { k \in DOMAIN hist.offers : hist.offers[k].list = p }

\* C13: a build evaluates the distance of every pair i < j exactly once and
\* offers that value exactly once to list[i] as (j, d) and exactly once to
\* list[j] as (i, d); hence a list receives N-1 offers, never its owner's id
\* and never the same id twice.
C13_PairsOnce ==
    /\ \A k \in DOMAIN hist.evals :
           /\ hist.evals[k][1] < hist.evals[k][2]
           /\ Count(hist.evals, hist.evals[k]) = 1
    /\ \A k \in DOMAIN hist.offers :
           LET o == hist.offers[k]
           IN  /\ o.id # o.list
               /\ o.id \in Points /\ o.list \in Points
               /\ o.dist = dist_func(o.list, o.id)
               /\ \A k2 \in OffersTo(o.list) : hist.offers[k2].id = o.id => k2 = k
    /\ pc \in {"ret", "done"} =>
           /\ \A a, b \in Points : a < b =>
                  /\ Count(hist.evals, <<a, b>>) = 1
                  /\ Count(hist.offers, [list |-> a, id |-> b, dist |-> dist_func(a, b)]) = 1
                  /\ Count(hist.offers, [list |-> b, id |-> a, dist |-> dist_func(a, b)]) = 1
           /\ \A p \in Points : Cardinality(OffersTo(p)) = len - 1

\* C13 witness: a completed build over three points: three evaluations, six
\* offers.
C13_Witness ==
    /\ pc = "done" /\ len = 3
    /\ Len(hist.evals) = 3 /\ Len(hist.offers) = 6

\* C14: every list has capacity min(K, N-1), and in every reachable state of
\* the build no list holds more entries than that (hence no more than K).
C14_SizeWithinCapacity ==
    \A p \in DOMAIN neigh : Len(Entries(neigh[p])) <= Min(max_nei, len - 1)

\* A step of the build that makes a segment_put call, and the offer it makes.
PutStep == Len(hist'.offers) > Len(hist.offers)
LastOffer == hist'.offers[Len(hist'.offers)]

\* C15: a segment_put that does not store its candidate leaves its list as
\* it was, and a segment_put on the list of p leaves every other list as it
\* was.
C15_Frame ==
    [][ PutStep =>
          LET p == LastOffer.list
              c == [id |-> LastOffer.id, dist |-> LastOffer.dist]
          IN  /\ \A q \in Points \ {p} : neigh'[q] = neigh[q]
              /\ (c \notin Range(Entries(neigh'[p]))) => (neigh'[p] = neigh[p]) ]_vars

\* C15 witness: a completed build over three points in which some list holds
\* an entry and did not store a candidate that was offered to it.
C15_Witness ==
    /\ pc = "done" /\ len = 3
    /\ \E k \in DOMAIN hist.offers :
           LET o == hist.offers[k]
           IN  /\ Entries(neigh[o.list]) # << >>
               /\ [id |-> o.id, dist |-> o.dist] \notin Range(Entries(neigh[o.list]))

\* The maximum entry of a non-empty list under (distance, id).
MaxEntry(e) == CHOOSE x \in Range(e) : \A y \in Range(e) : ~Less(x, y)

\* C16: across segment_put calls on one list the size never decreases, the
\* maximum entry of a full list never increases, an entry leaves only when a
\* strictly smaller candidate is stored in the same call, and a candidate
\* that was offered and is not in the list never (re-)enters it.
C16_Monotone ==
    [][ \A l \in {1, 2} :
          PutOn(l) =>
              LET e  == Entries(lst[l])
                  e2 == Entries(lst'[l])
                  c  == PutCand(l)
              IN  /\ Len(e2) >= Len(e)
                  /\ (cap > 0 /\ Len(e) = cap) =>
                         (e2 # << >> /\ ~Less(MaxEntry(e), MaxEntry(e2)))
                  /\ \A x \in Range(e) \ Range(e2) :
                         Less(c, x) /\ c \in Range(e2)
                  /\ \A x \in offered[l] \ Range(e) : x \notin Range(e2) ]_vars

\* C16 witness: a full list of capacity 1 that has received a second offer.
C16_Witness ==
    /\ cap = 1
    /\ Cardinality(offered[1]) = 2
    /\ Len(Entries(lst[1])) = 1

\* C17: in every reachable state of a build, an entry (id, d) of the list of
\* p has 0 <= id < N and d = metric(vector[p], vector[id]); hence two points
\* that hold each other record the same distance.
C17_EntriesAreDistances ==
    /\ \A p \in DOMAIN neigh :
           \A e \in Range(Entries(neigh[p])) :
               e.id \in Points /\ e.dist = dist_func(p, e.id)
    /\ \A p, q \in DOMAIN neigh :
           \A e \in Range(Entries(neigh[p])), f \in Range(Entries(neigh[q])) :
               (e.id = q /\ f.id = p) => e.dist = f.dist

\* C17 witness: a completed build in which points 0 and 1 hold each other at
\* a non-zero distance.
C17_Witness ==
    /\ pc = "done" /\ len = 3
    /\ Entries(neigh[0]) = << [id |-> 1, dist |-> 1] >>
    /\ Entries(neigh[1]) = << [id |-> 0, dist |-> 1] >>

\* The segments in which two chains differ.
SlotsChanged(old, new) == { k \in DOMAIN new : k \notin DOMAIN old \/ old[k] # new[k] }

\* The segment_put call that the build is about to make: list and index.
NextPutList == IF pc = "put_i" THEN i ELSE j
NextPutIndex == IF pc = "put_i" THEN j ELSE i

\* C18: every segment_put call runs at most max_nei loop iterations and
\* writes at most one segment; the build terminates, and it has then made
\* exactly N(N-1)/2 distance evaluations and N(N-1) segment_put calls.
C18_Terminates ==
    /\ [](pc \in {"put_i", "put_j"} =>
            \A m \in 0 .. MaxArg :
                LET old == neigh[NextPutList]
                    new == segment_put(old, NextPutIndex, dist, m)
                IN  /\ PutIters(old, 1, m) <= m
                    /\ Len(new) = Len(old)
                    /\ Cardinality(SlotsChanged(old, new)) <= 1)
    /\ [](pc = "done" => (2 * nDist = len * (len - 1) /\ nPut = len * (len - 1)))
    /\ <>(pc = "done")

\* C18 witness: a completed build over three points after 3 evaluations and
\* 6 segment_put calls.
C18_Witness ==
    pc = "done" /\ len = 3 /\ nDist = 3 /\ nPut = 6

\* C19: segment_init leaves a single segment with index 0 and dist -1; a
\* segment has dist < 0 exactly when no candidate was ever written into it
\* (and it is then as segment_init left it); a filled segment is never
\* written again.
C19_EmptyIffNeverWritten ==
    /\ [](\A p \in DOMAIN neigh : \A k \in DOMAIN neigh[p] :
              /\ (neigh[p][k].dist < 0) <=> (p \notin hist.written)
              /\ (neigh[p][k].dist < 0) => (neigh[p][k] = [index |-> 0, dist |-> -1]))
    /\ [][ /\ (pc = "init" /\ i' = i + 1) =>
                  neigh'[i] = << [index |-> 0, dist |-> -1] >>
           /\ \A p \in DOMAIN neigh : \A k \in DOMAIN neigh[p] :
                  (neigh[p][k].dist >= 0) =>
                      (k \in DOMAIN neigh'[p] /\ neigh'[p][k] = neigh[p][k]) ]_vars

\* C19 witness: a completed build over three points in which list 0 stored
\* its first candidate at distance 0 and kept it when the next one arrived.
C19_Witness ==
    /\ pc = "done" /\ len = 3
    /\ neigh[0] = << [index |-> 1, dist |-> 0] >>
    /\ 0 \in hist.written
    /\ \E p \in Points : p \notin hist.written

=============================================================================
